---- MODULE Spec2Model ----
(***************************************************************************)
(* Incremental CDC ingestion of db_loja.cliente                            *)
(* (src/src/ingest_incremental_cdc_clientes.py).                           *)
(*                                                                         *)
(* Text is modelled character by character: a Python str is a TLA+ string  *)
(* and the regular expressions _TBL_RE and _KV_RE are matched by explicit  *)
(* scans with the backtracking order of Python's re module.                *)
(***************************************************************************)
EXTENDS Integers, Sequences, FiniteSets, TLC

\* ------------------------------------------------------------------ text

Char(s, i) == SubSeq(s, i, i)

Max(S) == CHOOSE x \in S : \A y \in S : y <= x

Min(S) == CHOOSE x \in S : \A y \in S : x <= y

Digits == {"0", "1", "2", "3", "4", "5", "6", "7", "8", "9"}

Lower ==
    {"a", "b", "c", "d", "e", "f", "g", "h", "i", "j", "k", "l", "m",
     "n", "o", "p", "q", "r", "s", "t", "u", "v", "w", "x", "y", "z"}

Upper ==
    {"A", "B", "C", "D", "E", "F", "G", "H", "I", "J", "K", "L", "M",
     "N", "O", "P", "Q", "R", "S", "T", "U", "V", "W", "X", "Y", "Z"}

\* [A-Za-z0-9_]
WordChars == Lower \cup Upper \cup Digits \cup {"_"}

\* [:A-Za-z0-9_]
TableChars == WordChars \cup {":"}

\* \s (the members that occur in the inputs of this model)
Space == {" ", "\t", "\n"}

\* Length of the longest run of characters of C starting at position i.
RECURSIVE RunLen(_, _, _)
RunLen(s, i, C) ==
    IF i >= 1 /\ i <= Len(s) /\ Char(s, i) \in C
    THEN 1 + RunLen(s, i + 1, C)
    ELSE 0

\* Length of the longest run of characters outside C starting at position i.
RECURSIVE NotRunLen(_, _, _)
NotRunLen(s, i, C) ==
    IF i >= 1 /\ i <= Len(s) /\ Char(s, i) \notin C
    THEN 1 + NotRunLen(s, i + 1, C)
    ELSE 0

RECURSIVE lstrip(_)
lstrip(s) ==
    IF Len(s) > 0 /\ Char(s, 1) \in Space
    THEN lstrip(SubSeq(s, 2, Len(s)))
    ELSE s

RECURSIVE rstrip(_)
rstrip(s) ==
    IF Len(s) > 0 /\ Char(s, Len(s)) \in Space
    THEN rstrip(SubSeq(s, 1, Len(s) - 1))
    ELSE s

\* str.strip()
strip(s) == rstrip(lstrip(s))

\* ------------------------------------------------------------- _TBL_RE

\* The alternation compiled with re.IGNORECASE.
OpKeywordsAnyCase == {"INSERT", "UPDATE", "DELETE", "insert", "update", "delete"}

OpKeywords == {"INSERT", "UPDATE", "DELETE"}

\* The result of a failed match; a successful one carries the groups, and
\* "at" orders the alternatives the regex engine tries for one group.
NoMatch ==
    [ok |-> FALSE, schema |-> "", table |-> "", op |-> "", rest |-> "", at |-> 0]

\* Of the alternatives a greedy group offers, the engine takes the longest
\* one for which the rest of the pattern matches.
PickLongest(ms) ==
    IF \A m \in ms : ~m.ok
    THEN NoMatch
    ELSE CHOOSE m \in ms : m.ok /\ \A o \in ms : o.ok => o.at <= m.at

\* ":\s+(INSERT|UPDATE|DELETE):\s+(.*)$" matched at position e of s.
TblTail(s, e) ==
    LET w1 == RunLen(s, e + 1, Space)
        p  == e + 1 + w1
        c  == p + 6
        w2 == RunLen(s, c + 1, Space)
        r  == SubSeq(s, c + 1 + w2, Len(s))
    IN  IF /\ e <= Len(s)
           /\ Char(s, e) = ":"
           /\ w1 >= 1
           /\ c <= Len(s)
           /\ SubSeq(s, p, p + 5) \in OpKeywords
           /\ Char(s, c) = ":"
           /\ w2 >= 1
           /\ NotRunLen(r, 1, {"\n"}) = Len(r)
        THEN [NoMatch EXCEPT !.ok = TRUE, !.op = SubSeq(s, p, p + 5), !.rest = r]
        ELSE NoMatch

WithTable(m, table, at) ==
    IF m.ok THEN [m EXCEPT !.table = table, !.at = at] ELSE NoMatch

\* "([:A-Za-z0-9_]+)" followed by the tail, matched at position b of s: the
\* group is greedy and gives characters back until the tail matches.
TblTable(s, b) ==
    PickLongest({WithTable(TblTail(s, b + t), SubSeq(s, b, b + t - 1), t) :
                    t \in 1..RunLen(s, b, TableChars)})

WithSchema(m, schema, at) ==
    IF m.ok THEN [m EXCEPT !.schema = schema, !.at = at] ELSE NoMatch

\* "([^.]+)\." with a group of len characters, then the table and the tail.
TblSchemaLen(s, a, len) ==
    IF len >= 1 /\ a + len <= Len(s)
    THEN WithSchema(TblTable(s, a + len + 1), SubSeq(s, a, a + len - 1), a)
    ELSE NoMatch

\* "([^.]+)\." followed by the table and the tail, matched at position a of
\* s: the group runs to the first "." and no shorter group is followed by one.
TblSchema(s, a) == TblSchemaLen(s, a, NotRunLen(s, a, {"."}))

\* _TBL_RE.match(s): "^table\s+" and then the groups; \s+ is greedy and gives
\* characters back until the rest matches.
TBL_RE_match(s) ==
    IF Len(s) >= 5 /\ SubSeq(s, 1, 5) = "table"
    THEN PickLongest({TblSchema(s, 6 + w) : w \in 1..RunLen(s, 6, Space)})
    ELSE NoMatch

\* -------------------------------------------------------------- _KV_RE

KvNoMatch == [ok |-> FALSE, k |-> "", v |-> "", end |-> 0]

\* The lookahead "(?=\s+[A-Za-z0-9_]+\[|\s*$)" at position q of r.
KvLookahead(r, q) ==
    LET w == RunLen(r, q, Space)
        m == RunLen(r, q + w, WordChars)
    IN  \/ w >= 1 /\ m >= 1 /\ q + w + m <= Len(r) /\ Char(r, q + w + m) = "["
        \/ q + w > Len(r)

\* "([^\s].*?)" from position vs of r: the lazy group ends at the first
\* position where the lookahead holds (the end of r at the latest).
KvValue(r, i, b, vs) ==
    [ok |-> TRUE,
     k  |-> SubSeq(r, i, b - 1),
     v  |-> SubSeq(r, vs, Min({q \in (vs + 1)..(Len(r) + 1) : KvLookahead(r, q)}) - 1),
     end |-> Min({q \in (vs + 1)..(Len(r) + 1) : KvLookahead(r, q)})]

\* One match of _KV_RE starting exactly at position i of r.
KvMatchAt(r, i) ==
    LET nl == RunLen(r, i, WordChars)
        b  == i + nl
        tl == NotRunLen(r, b + 1, {"]"})
        cb == b + 1 + tl
        vs == cb + 2
    IN  IF /\ nl >= 1
           /\ b <= Len(r) /\ Char(r, b) = "["
           /\ tl >= 1
           /\ cb <= Len(r)
           /\ cb + 1 <= Len(r) /\ Char(r, cb + 1) = ":"
           /\ vs <= Len(r) /\ Char(r, vs) \notin Space
           /\ NotRunLen(r, vs, {"\n"}) = Len(r) - vs + 1
        THEN KvValue(r, i, b, vs)
        ELSE KvNoMatch

RECURSIVE KV_RE_finditer(_, _)

\* The scan resumes at the end of a match, or one character further on.
KvResume(r, i, m) ==
    IF m.ok
    THEN <<[k |-> m.k, v |-> m.v]>> \o KV_RE_finditer(r, m.end)
    ELSE KV_RE_finditer(r, i + 1)

\* _KV_RE.finditer(r): the non-overlapping matches, left to right.
KV_RE_finditer(r, i) ==
    IF i > Len(r) THEN << >> ELSE KvResume(r, i, KvMatchAt(r, i))

\* cols[k] = v on an insertion-ordered dict, kept as a sequence of pairs.
DictSet(d, k, v) ==
    IF \E j \in DOMAIN d : d[j].k = k
    THEN [j \in DOMAIN d |-> IF d[j].k = k THEN [k |-> k, v |-> v] ELSE d[j]]
    ELSE Append(d, [k |-> k, v |-> v])

\* The removal of one pair of surrounding single quotes.
Unquote(v) ==
    IF Len(v) >= 2 /\ Char(v, 1) = "'" /\ Char(v, Len(v)) = "'"
    THEN SubSeq(v, 2, Len(v) - 1)
    ELSE v

\* The loop of lines 35-40 over the matches ms.
RECURSIVE BuildCols(_, _)
BuildCols(ms, d) ==
    IF ms = << >>
    THEN d
    ELSE BuildCols(Tail(ms), DictSet(d, Head(ms).k, Unquote(strip(Head(ms).v))))

\* The empty dict {} that parse_test_decoding_row returns for no match.
EmptyDict == [x \in {} |-> x]

\* Lines 31-41, for the match m of line 30.
ParsedDict(m) ==
    IF ~m.ok
    THEN EmptyDict
    ELSE [schema |-> m.schema, table |-> m.table, op |-> m.op,
          cols |-> BuildCols(KV_RE_finditer(m.rest, 1), << >>)]

parse_test_decoding_row(raw) == ParsedDict(TBL_RE_match(strip(raw)))

\* --------------------------------------------------------- serializing

\* One character of a JSON string, as json.dumps(..., ensure_ascii=False)
\* writes it.
JsonChar(c) ==
    CASE c = "\"" -> "\\\""
      [] c = "\\" -> "\\\\"
      [] c = "\n" -> "\\n"
      [] c = "\t" -> "\\t"
      [] OTHER -> c

RECURSIVE JsonEscape(_)
JsonEscape(s) ==
    IF Len(s) = 0
    THEN ""
    ELSE JsonChar(Char(s, 1)) \o JsonEscape(SubSeq(s, 2, Len(s)))

RECURSIVE JsonItems(_)
JsonItems(d) ==
    IF d = << >>
    THEN ""
    ELSE "\"" \o JsonEscape(Head(d).k) \o "\": \"" \o JsonEscape(Head(d).v) \o "\""
         \o (IF Len(d) > 1 THEN ", " ELSE "") \o JsonItems(Tail(d))

\* json.dumps(cols, ensure_ascii=False) of a dict of strings.
json_dumps(d) == "{" \o JsonItems(d) \o "}"

RECURSIVE CsvDoubleQuotes(_)
CsvDoubleQuotes(s) ==
    IF Len(s) = 0
    THEN ""
    ELSE (IF Char(s, 1) = "\"" THEN "\"\"" ELSE Char(s, 1))
         \o CsvDoubleQuotes(SubSeq(s, 2, Len(s)))

\* One field as the csv writer of DataFrame.to_csv writes it (QUOTE_MINIMAL).
CsvField(s) ==
    IF NotRunLen(s, 1, {",", "\"", "\n"}) < Len(s)
    THEN "\"" \o CsvDoubleQuotes(s) \o "\""
    ELSE s

CsvRow(r) ==
    CsvField(r.capture_ts) \o "," \o CsvField(r.lsn) \o "," \o CsvField(r.op)
    \o "," \o CsvField(r.columns) \o "\n"

RECURSIVE CsvRows(_)
CsvRows(df) == IF df = << >> THEN "" ELSE CsvRow(Head(df)) \o CsvRows(Tail(df))

\* to_csv(index=False, header=False)
CsvHeaderNone(df) == ""

\* The header row: the DataFrame's columns are the keys of the dicts appended
\* by process_cdc_for_cliente; pd.DataFrame() has no column at all.
CsvHeader(df) == IF df = << >> THEN "\n" ELSE "capture_ts,lsn,op,columns\n"

\* df.to_csv(index=False)
to_csv(df) == CsvHeader(df) \o CsvRows(df)

\* pd.DataFrame(): no rows, no columns.
EmptyDataFrame == << >>

\* A main() that goes on to write whatever the filter returned.
df_empty_never(df) == FALSE

\* df.empty
df_empty(df) == Len(df) = 0

\* ---------------------------------------------------------------- clock

\* The wall clock is read in whole seconds; reading t is t seconds after
\* 2024-01-01 23:59:58 local time, so that the second tick crosses midnight.
BaseSecond == 24 * 3600 - 2

DayOfMonth(t) == 1 + ((BaseSecond + t) \div (24 * 3600))

SecondOfDay(t) == (BaseSecond + t) % (24 * 3600)

Pad2(n) == IF n < 10 THEN "0" \o ToString(n) ELSE ToString(n)

Hour(t) == SecondOfDay(t) \div 3600

Minute(t) == (SecondOfDay(t) % 3600) \div 60

Second(t) == SecondOfDay(t) % 60

\* now.strftime("data=%Y%m%d")
strftime_date_partition(t) == "data=" \o "2024" \o "01" \o Pad2(DayOfMonth(t))

\* now.strftime("%Y%m%d_%H%M")
strftime_file_timestamp_minutes(t) ==
    "2024" \o "01" \o Pad2(DayOfMonth(t)) \o "_" \o Pad2(Hour(t)) \o Pad2(Minute(t))

\* now.strftime("%Y%m%d_%H%M%S")
strftime_file_timestamp(t) ==
    "2024" \o "01" \o Pad2(DayOfMonth(t)) \o "_"
    \o Pad2(Hour(t)) \o Pad2(Minute(t)) \o Pad2(Second(t))

\* datetime.isoformat() of a reading with no fraction of a second.
isoformat(t) ==
    "2024" \o "-" \o "01" \o "-" \o Pad2(DayOfMonth(t)) \o "T"
    \o Pad2(Hour(t)) \o ":" \o Pad2(Minute(t)) \o ":" \o Pad2(Second(t))

\* ------------------------------------------------------------ functions

\* A filter that compares the table and not the schema.
IsTargetTableOnly(parsed, target_schema, target_table) ==
    parsed.table = target_table

\* The test of line 61 on a parsed, non-empty dict.
IsTarget(parsed, target_schema, target_table) ==
    parsed.schema = target_schema /\ parsed.table = target_table

\* Lines 59-67 for one row r and its parsed dict: the records it appends.
ProcessRow(r, parsed, target_schema, target_table, capture_ts) ==
    IF DOMAIN parsed = {}
    THEN << >>
    ELSE IF IsTarget(parsed, target_schema, target_table)
    THEN <<[capture_ts |-> capture_ts,
            lsn |-> r.lsn,
            op |-> parsed.op,
            columns |-> json_dumps(parsed.cols)]>>
    ELSE << >>

\* The loop of process_cdc_for_cliente over raw_rows, appending to out.
RECURSIVE ProcessLoop(_, _, _, _, _)
ProcessLoop(raw_rows, target_schema, target_table, capture_ts, out) ==
    IF raw_rows = << >>
    THEN out
    ELSE ProcessLoop(Tail(raw_rows), target_schema, target_table, capture_ts,
                     out \o ProcessRow(Head(raw_rows),
                                       parse_test_decoding_row(Head(raw_rows).data),
                                       target_schema, target_table, capture_ts))

\* pd.DataFrame(out) if out else pd.DataFrame()
DataFrame(out) == IF out # << >> THEN out ELSE EmptyDataFrame

\* process_cdc_for_cliente, with the clock reading of its datetime.now().
process_cdc_for_cliente(raw_rows, target_schema, target_table, now) ==
    DataFrame(ProcessLoop(raw_rows, target_schema, target_table,
                          isoformat(now), << >>))

\* An object name of the date partition and the prefix alone.
ObjectNameDateOnly(base_path, prefix, now) ==
    base_path \o strftime_date_partition(now) \o "/" \o prefix \o ".csv"

\* object_name of write_csv_to_minio, with the reading of its datetime.now().
ObjectName(base_path, prefix, now) ==
    base_path \o strftime_date_partition(now) \o "/"
    \o prefix \o "_" \o strftime_file_timestamp(now) \o ".csv"

\* The arguments of put_object for the encoded bytes.
PutArgs(bucket, object_name, csv_bytes) ==
    [bucket_name |-> bucket, object_name |-> object_name,
     data |-> csv_bytes, length |-> Len(csv_bytes)]

\* The put_object request write_csv_to_minio issues.
PutRequest(bucket, base_path, df, prefix, now) ==
    PutArgs(bucket, ObjectName(base_path, prefix, now), to_csv(df))

\* pg_logical_slot_peek_changes: the rows, and the slot stays where it was.
SlotResultPeek(wal, confirmed, n) ==
    [rows |-> SubSeq(wal, confirmed + 1, confirmed + n),
     confirmed |-> confirmed]

\* The rows pg_logical_slot_get_changes returns and the slot's new position.
SlotResult(wal, confirmed, n) ==
    [rows |-> SubSeq(wal, confirmed + 1, confirmed + n),
     confirmed |-> confirmed + n]

\* pg_logical_slot_get_changes(:slot, NULL, :limit, ...): the pending changes
\* of the slot, at most limit of them; the slot moves past them.
pg_logical_slot_get_changes(wal, confirmed, limit) ==
    SlotResult(wal, confirmed, Min({limit, Len(wal) - confirmed}))

\* -------------------------------------------------------- configuration

BUCKET_NAME == "raw"

RAW_INC_BASE_PATH == "inc/"

TARGET_TABLE == "cliente"

\* os.getenv("PGSCHEMA", "db_loja")
PGSCHEMA == "db_loja"

\* --------------------------------------------------------------- bounds

\* Changes the source database commits in one behaviour.
MaxWal == 2

\* int(os.getenv("CDC_BATCH_LIMIT", "1000")): an invocation is given a limit
\* from 1 to this.
MaxBatchLimit == 2

\* Invocations of main() (the scheduler re-invoking the process).
MaxCycles == 2

\* Ticks of the wall clock.
MaxClock == 1

\* Rows of an argument of process_cdc_for_cliente called on its own.
MaxRows == 3

\* put_object requests of write_csv_to_minio called on its own.
MaxPuts == 2

\* ---------------------------------------------------------------- state

VARIABLES
    wal,        \* the changes decoded for the slot, in commit order
    confirmed,  \* how many of them the slot has handed out (its position)
    clock,      \* the wall clock, in seconds
    sink,       \* the bucket: object name -> object body
    putLog,     \* every put_object request made, with its outcome
    fetchLog,   \* every fetch made, with the lsn of the rows it returned
    cycle,      \* which invocation of main() is running
    pc,         \* the line main() is at, or how it ended
    exc,        \* the exception that ended main(), if one did
    raw_rows,   \* main's raw_rows
    df,         \* main's df
    stdout,     \* what main() printed in this invocation
    calls,      \* the functions main() called in this invocation
    unit        \* the last call of a function made on its own, and its result

vars ==
    <<wal, confirmed, clock, sink, putLog, fetchLog, cycle, pc, exc,
      raw_rows, df, stdout, calls, unit>>

NoCall == [fn |-> "none", args |-> << >>, ret |-> << >>]

\* The lsn of the i-th change of the slot.
Lsn(i) == "0/" \o ToString(i)

WalEntry(i, payload) == [lsn |-> Lsn(i), xid |-> 730 + i, data |-> payload]

\* The payloads test_decoding emits in the behaviours of the pipeline.
Payloads ==
    {"table db_loja.cliente: INSERT: id[integer]:1 nome[character varying]:'Ana Silva'",
     "table db_loja.pedido: UPDATE: id[integer]:2 total[numeric]:10.5",
     "COMMIT"}

StartState(at) ==
    /\ wal = << >>
    /\ confirmed = 0
    /\ clock = 0
    /\ sink = EmptyDict
    /\ putLog = << >>
    /\ fetchLog = << >>
    /\ cycle = 1
    /\ pc = at
    /\ exc = "none"
    /\ raw_rows = << >>
    /\ df = EmptyDataFrame
    /\ stdout = << >>
    /\ calls = << >>
    /\ unit = NoCall

\* A fresh slot, an empty bucket and main() about to start.
Init == StartState("L116")

\* minio_client.put_object(...) that succeeds: one object, whole, under the name.
PutObject(bucket, req) ==
    [k \in DOMAIN bucket \cup {req.object_name} |->
        IF k = req.object_name THEN req.data ELSE bucket[k]]

PutRecord(req, d, now, ok) ==
    [cycle |-> cycle, object_name |-> req.object_name, data |-> req.data,
     df |-> d, at |-> now, ok |-> ok]

\* ---------------------------------------------------------- environment

\* The source database commits one more change.
Produce ==
    /\ Len(wal) < MaxWal
    /\ \E p \in Payloads : wal' = Append(wal, WalEntry(Len(wal) + 1, p))
    /\ UNCHANGED <<confirmed, clock, sink, putLog, fetchLog, cycle, pc, exc,
                   raw_rows, df, stdout, calls, unit>>

\* The wall clock advances by one second.
Tick ==
    /\ clock < MaxClock
    /\ clock' = clock + 1
    /\ UNCHANGED <<wal, confirmed, sink, putLog, fetchLog, cycle, pc, exc,
                   raw_rows, df, stdout, calls, unit>>

\* ----------------------------------------------------------------- main

\* What main() prints is kept as the number of the line that prints it, with
\* the values line 128 puts in its text.
Line116 == [line |-> 116]

LsnsOf(rows) == [i \in DOMAIN rows |-> rows[i].lsn]

\* Lines 117-120 once the query has returned got.
FetchReturns(got) ==
    /\ confirmed' = got.confirmed
    /\ raw_rows' = got.rows
    /\ fetchLog' = Append(fetchLog,
                          [cycle |-> cycle, ok |-> TRUE, lsns |-> LsnsOf(got.rows)])
    /\ calls' = Append(calls, "fetch_cdc_changes")
    /\ IF got.rows = << >>
       THEN /\ stdout' = <<Line116, [line |-> 119]>>
            /\ pc' = "returned"
       ELSE /\ stdout' = <<Line116>>
            /\ pc' = "L122"

\* Lines 116-120: the fetch returns, and main returns if it returned no row.
Main_Fetch ==
    /\ pc = "L116"
    /\ \E CDC_BATCH_LIMIT \in 1..MaxBatchLimit :
          FetchReturns(pg_logical_slot_get_changes(wal, confirmed, CDC_BATCH_LIMIT))
    /\ UNCHANGED <<wal, clock, sink, putLog, cycle, exc, df, unit>>

\* A main() that catches the exception of the fetch and fetches again.
Main_FetchErrorRetried ==
    /\ pc = "L116"
    /\ stdout' = <<Line116>>
    /\ fetchLog' = Append(fetchLog, [cycle |-> cycle, ok |-> FALSE, lsns |-> << >>])
    /\ calls' = Append(calls, "fetch_cdc_changes")
    /\ pc' = "L116"
    /\ exc' = "none"
    /\ UNCHANGED <<wal, confirmed, clock, sink, putLog, cycle, raw_rows, df, unit>>

\* Line 117: fetch_cdc_changes raises (connection, authentication, no slot);
\* main has no handler, so the exception leaves main.
Main_FetchError ==
    /\ pc = "L116"
    /\ stdout' = <<Line116>>
    /\ fetchLog' = Append(fetchLog, [cycle |-> cycle, ok |-> FALSE, lsns |-> << >>])
    /\ calls' = Append(calls, "fetch_cdc_changes")
    /\ pc' = "raised"
    /\ exc' = "SlotFetchError"
    /\ UNCHANGED <<wal, confirmed, clock, sink, putLog, cycle, raw_rows, df, unit>>

\* Lines 122-125 once process_cdc_for_cliente has returned out.
ProcessReturns(out) ==
    /\ df' = out
    /\ calls' = Append(calls, "process_cdc_for_cliente")
    /\ IF df_empty(out)
       THEN /\ stdout' = Append(stdout, [line |-> 124])
            /\ pc' = "returned"
       ELSE /\ stdout' = stdout
            /\ pc' = "L127"

\* Lines 122-125: decode and filter, and main returns if nothing is left.
Main_Process ==
    /\ pc = "L122"
    /\ ProcessReturns(process_cdc_for_cliente(raw_rows, PGSCHEMA, TARGET_TABLE, clock))
    /\ UNCHANGED <<wal, confirmed, clock, sink, putLog, fetchLog, cycle, exc,
                   raw_rows, unit>>

\* write_csv_to_minio(df): put_object(req) stores the object.
WriteReturns(req, d) ==
    /\ sink' = PutObject(sink, req)
    /\ putLog' = Append(putLog, PutRecord(req, d, clock, TRUE))

\* Lines 127-128 once write_csv_to_minio has put req.
MainWriteReturns(req) ==
    /\ WriteReturns(req, df)
    /\ stdout' = Append(stdout, [line |-> 128, dest |-> req.object_name, n |-> Len(df)])

\* Lines 127-128: write_csv_to_minio returns the object name.
Main_Write ==
    /\ pc = "L127"
    /\ MainWriteReturns(PutRequest(BUCKET_NAME, RAW_INC_BASE_PATH, df, "cliente_cdc", clock))
    /\ calls' = Append(calls, "write_csv_to_minio")
    /\ pc' = "returned"
    /\ UNCHANGED <<wal, confirmed, clock, fetchLog, cycle, exc, raw_rows, df, unit>>

\* write_csv_to_minio(df): put_object(req) raises and nothing is stored under
\* the name.
WriteRaises(req, d) ==
    /\ sink' = sink
    /\ putLog' = Append(putLog, PutRecord(req, d, clock, FALSE))

\* Line 127: put_object raises inside write_csv_to_minio; neither function
\* has a handler, so the exception leaves main.
Main_WriteError ==
    /\ pc = "L127"
    /\ WriteRaises(PutRequest(BUCKET_NAME, RAW_INC_BASE_PATH, df, "cliente_cdc", clock), df)
    /\ calls' = Append(calls, "write_csv_to_minio")
    /\ pc' = "raised"
    /\ exc' = "SinkWriteError"
    /\ UNCHANGED <<wal, confirmed, clock, fetchLog, cycle, raw_rows, df,
                   stdout, unit>>

\* The process is killed after the fetch and before the write.
Crash ==
    /\ pc \in {"L122", "L127"}
    /\ pc' = "killed"
    /\ UNCHANGED <<wal, confirmed, clock, sink, putLog, fetchLog, cycle, exc,
                   raw_rows, df, stdout, calls, unit>>

\* The scheduler runs the script again: a new process, with nothing kept
\* from the last one but the slot and the bucket.
NewCycle ==
    /\ pc \in {"returned", "raised", "killed"}
    /\ cycle < MaxCycles
    /\ cycle' = cycle + 1
    /\ pc' = "L116"
    /\ exc' = "none"
    /\ raw_rows' = << >>
    /\ df' = EmptyDataFrame
    /\ stdout' = << >>
    /\ calls' = << >>
    /\ UNCHANGED <<wal, confirmed, clock, sink, putLog, fetchLog, unit>>

Next ==
    \/ Produce
    \/ Tick
    \/ Main_Fetch
    \/ Main_FetchError
    \/ Main_Process
    \/ Main_Write
    \/ Main_WriteError
    \/ Crash
    \/ NewCycle

\* The pipeline: main() run again and again against one slot and one bucket.
Spec == Init /\ [][Next]_vars

\* ------------------------------------------- the functions on their own

\* No invocation of main(): the functions are called directly.
InitUnit == StartState("unit")

\* Payloads put together from parts, right and wrong, of the grammar.
UnitPayloads ==
    {lead \o word \o sp1 \o "db_loja." \o tbl \o col1 \o sp2 \o op \o col2 \o rest :
        lead \in {"", " "}, word \in {"table", "TABLE"}, sp1 \in {" ", ""},
        tbl \in {"cliente", "cli-ente"}, col1 \in {":", ""}, sp2 \in {" ", ""},
        op \in {"INSERT", "DELETE", "insert", "TRUNCATE"}, col2 \in {":", ""},
        rest \in {" id[integer]:1 nome[text]:'Ana Maria Silva'", " (no-tuple-data)", ""}}
    \cup {"BEGIN", "COMMIT", "", "table", "\ttable db_loja.cliente: UPDATE: id[integer]:1\n"}

\* Payloads of rows given to process_cdc_for_cliente.
FilterPayloads ==
    {"table db_loja.cliente: INSERT: id[integer]:1 nome[character varying]:'Ana Silva'",
     "table db_loja.cliente: DELETE: id[integer]:1",
     "table db_loja.Cliente: UPDATE: id[integer]:3",
     "table pub.cliente: UPDATE: id[integer]:2",
     "COMMIT"}

\* The rows with the payloads ps[1], ps[2], ... in delivery order.
RowsOf(ps) == [i \in DOMAIN ps |-> WalEntry(i, ps[i])]

UnitRowSeqs ==
    UNION {{RowsOf(ps) : ps \in [1..n -> FilterPayloads]} : n \in 0..MaxRows}

\* parse_test_decoding_row(payload)
UnitParse ==
    /\ pc = "unit"
    /\ unit = NoCall
    /\ \E payload \in UnitPayloads :
          unit' = [fn |-> "parse_test_decoding_row", args |-> payload,
                   ret |-> parse_test_decoding_row(payload)]
    /\ UNCHANGED <<wal, confirmed, clock, sink, putLog, fetchLog, cycle, pc, exc,
                   raw_rows, df, stdout, calls>>

\* process_cdc_for_cliente(rows, target_schema, target_table)
UnitProcess ==
    /\ pc = "unit"
    /\ unit = NoCall
    /\ \E rows \in UnitRowSeqs, target_schema \in {"db_loja", "pub"},
          target_table \in {"cliente", "Cliente"} :
          unit' = [fn |-> "process_cdc_for_cliente",
                   args |-> <<rows, target_schema, target_table>>,
                   ret |-> process_cdc_for_cliente(rows, target_schema,
                                                   target_table, clock)]
    /\ UNCHANGED <<wal, confirmed, clock, sink, putLog, fetchLog, cycle, pc, exc,
                   raw_rows, df, stdout, calls>>

NextDecode ==
    \/ UnitParse
    \/ UnitProcess
    \/ Tick

\* The decoder and the filter, called once with any payload, rows and target.
SpecDecode == InitUnit /\ [][NextDecode]_vars

\* The DataFrames given to write_csv_to_minio: of no, one and two records.
UnitDataFrames ==
    {process_cdc_for_cliente(
        RowsOf([i \in 1..n |->
                  "table db_loja.cliente: INSERT: id[integer]:1 nome[text]:'Ana'"]),
        PGSCHEMA, TARGET_TABLE, clock) : n \in 0..2}

UnitWriteReturns(req, d) ==
    /\ WriteReturns(req, d)
    /\ unit' = [fn |-> "write_csv_to_minio", args |-> d, ret |-> req.object_name]

\* write_csv_to_minio(minio_client, "raw", "inc/", d, "cliente_cdc") returns.
UnitWrite ==
    /\ pc = "unit"
    /\ Len(putLog) < MaxPuts
    /\ \E d \in UnitDataFrames :
          UnitWriteReturns(PutRequest(BUCKET_NAME, RAW_INC_BASE_PATH, d,
                                      "cliente_cdc", clock), d)
    /\ UNCHANGED <<wal, confirmed, clock, fetchLog, cycle, pc, exc,
                   raw_rows, df, stdout, calls>>

UnitWriteRaises(req, d) ==
    /\ WriteRaises(req, d)
    /\ unit' = [fn |-> "write_csv_to_minio", args |-> d, ret |-> "SinkWriteError"]

\* The same call, with put_object raising.
UnitWriteError ==
    /\ pc = "unit"
    /\ Len(putLog) < MaxPuts
    /\ \E d \in UnitDataFrames :
          UnitWriteRaises(PutRequest(BUCKET_NAME, RAW_INC_BASE_PATH, d,
                                     "cliente_cdc", clock), d)
    /\ UNCHANGED <<wal, confirmed, clock, fetchLog, cycle, pc, exc,
                   raw_rows, df, stdout, calls>>

NextWrite ==
    \/ UnitWrite
    \/ UnitWriteError
    \/ Tick

\* The writer, called with any DataFrame.
SpecWrite == InitUnit /\ [][NextWrite]_vars

\* ---------------------------------------------------------- observation

\* What one invocation of main() reports to its caller: main() returns None
\* or raises, and prints lines 116, 119, 124, 128. Line 128 prints the object
\* name and len(df); no line prints len(raw_rows).
CycleResult ==
    [entriesFetched  |-> {},
     recordsWritten  |-> {stdout[i].n : i \in {j \in DOMAIN stdout : stdout[j].line = 128}},
     destinationPath |-> {stdout[i].dest : i \in {j \in DOMAIN stdout : stdout[j].line = 128}}]

\* ------------------------------------------------- reading the claims

\* The put_object requests of invocation c, and its fetches.
PutsOf(c) == {i \in DOMAIN putLog : putLog[i].cycle = c}

FetchesOf(c) == {i \in DOMAIN fetchLog : fetchLog[i].cycle = c}

\* The decoded change is one of the target table.
IsChangeOf(decoded, target_schema, target_table) ==
    /\ DOMAIN decoded # {}
    /\ decoded.schema = target_schema
    /\ decoded.table = target_table

\* What parse_test_decoding_row returns for each payload of the model.
Decoded == [w \in Payloads \cup UnitPayloads \cup FilterPayloads |->
               parse_test_decoding_row(w)]

\* The entry decodes to a change of the target table.
Keeps(r, target_schema, target_table) ==
    IsChangeOf(Decoded[r.data], target_schema, target_table)

MatchingIdx(rows, target_schema, target_table) ==
    {i \in DOMAIN rows : Keeps(rows[i], target_schema, target_table)}

\* The j-th smallest member of a set of numbers.
Nth(S, j) == CHOOSE i \in S : Cardinality({k \in S : k < i}) = j - 1

\* The lines of a text, each ended by a line feed.
RECURSIVE SplitLines(_)

SplitAt(text, n) == <<SubSeq(text, 1, n)>> \o SplitLines(SubSeq(text, n + 2, Len(text)))

SplitLines(text) ==
    IF Len(text) = 0 THEN << >> ELSE SplitAt(text, NotRunLen(text, 1, {"\n"}))

\* The second and third comma-separated fields of a line whose first two
\* fields hold no comma.
FieldAfter(line, start) == SubSeq(line, start, start + NotRunLen(line, start, {","}) - 1)

Field2(line) == FieldAfter(line, NotRunLen(line, 1, {","}) + 2)

Field3(line) == FieldAfter(line, NotRunLen(line, 1, {","}) + Len(Field2(line)) + 3)

LsnsInLines(lines) == {Field2(lines[i]) : i \in 2..Len(lines)}

\* The log positions in the rows of a CSV object.
LsnsInCsv(text) == LsnsInLines(SplitLines(text))

Range(f) == {f[i] : i \in DOMAIN f}

\* "2024-01-01T23:59:58" as "20240101_235958".
RECURSIVE CompactStamp(_)
CompactStamp(iso) ==
    IF Len(iso) = 0
    THEN ""
    ELSE (CASE Char(iso, 1) \in {"-", ":"} -> ""
            [] Char(iso, 1) = "T" -> "_"
            [] OTHER -> Char(iso, 1))
         \o CompactStamp(SubSeq(iso, 2, Len(iso)))

\* The destination path for a date and a second given as "YYYYMMDD_HHMMSS".
PathForStamp(stamp) ==
    "inc/" \o "data=" \o SubSeq(stamp, 1, 8) \o "/" \o "cliente_cdc" \o "_"
    \o stamp \o ".csv"

\* The payload begins with "table <schema>.<table>:", an operation keyword
\* and a colon.
BeginsWithHeader(p) ==
    /\ Len(p) >= 6
    /\ SubSeq(p, 1, 5) = "table"
    /\ Char(p, 6) \in {" ", "\t", "\n"}
    /\ \E d \in {i \in 8..Len(p) : Char(p, i) = "."} :
          /\ \A i \in 6..(d - 1) : Char(p, i) # "."
          /\ \E e \in {i \in (d + 2)..Len(p) : Char(p, i) = ":"} :
                /\ \A i \in (d + 1)..(e - 1) :
                      Char(p, i) \in Lower \cup Upper \cup Digits \cup {"_", ":"}
                /\ \E o \in (e + 1)..(Len(p) - 6) :
                      /\ \A i \in (e + 1)..(o - 1) : Char(p, i) \in {" ", "\t", "\n"}
                      /\ SubSeq(p, o, o + 5) \in {"INSERT", "UPDATE", "DELETE"}
                      /\ Char(p, o + 6) = ":"

\* The payload without its leading whitespace.
DropLeadingSpace(p) == SubSeq(p, RunLen(p, 1, {" ", "\t", "\n"}) + 1, Len(p))

\* --------------------------------------------------------------- claims

\* C1: in one invocation of main() a put is made if and only if the fetch
\* returned at least one entry and at least one of them is a change of the
\* target table; otherwise main() returns after line 119 or 124 with no put
\* and no destination path reported.
C1_PutIffFetchedAndMatched ==
    LET K    == Cardinality(MatchingIdx(raw_rows, PGSCHEMA, TARGET_TABLE))
        puts == Cardinality(PutsOf(cycle))
    IN  /\ puts > 0 => Len(raw_rows) >= 1 /\ K >= 1
        /\ (pc \in {"returned", "raised"} /\ K >= 1) => puts = 1
        /\ (pc = "returned" /\ K = 0) =>
              /\ puts = 0
              /\ CycleResult.destinationPath = {}
              /\ stdout[Len(stdout)].line = (IF Len(raw_rows) = 0 THEN 119 ELSE 124)

C1_Witness ==
    /\ pc = "returned"
    /\ Len(raw_rows) = 2
    /\ Cardinality(MatchingIdx(raw_rows, PGSCHEMA, TARGET_TABLE)) = 1
    /\ Cardinality(PutsOf(cycle)) = 1
    /\ cycle = 2
    /\ PutsOf(1) = {}

\* C2: an invocation whose filter keeps K >= 1 entries makes exactly one put,
\* of the whole object; the object holds K+1 lines, the header and one row
\* per kept entry, in the order the slot delivered the entries; every object
\* of the bucket is the whole body of one put.
C2_OneObjectHeaderPlusRows ==
    LET M == MatchingIdx(raw_rows, PGSCHEMA, TARGET_TABLE)
        K == Cardinality(M)
    IN  /\ Cardinality(PutsOf(cycle)) <= 1
        /\ (pc = "returned" /\ K >= 1) =>
              \E i \in PutsOf(cycle) : putLog[i].ok
        /\ \A i \in PutsOf(cycle) :
              LET lines == SplitLines(putLog[i].data)
              IN  /\ K >= 1
                  /\ Len(lines) = K + 1
                  /\ lines[1] = "capture_ts,lsn,op,columns"
                  /\ \A j \in 1..K :
                        /\ Field2(lines[j + 1]) = raw_rows[Nth(M, j)].lsn
                        /\ Field3(lines[j + 1]) =
                              Decoded[raw_rows[Nth(M, j)].data].op
                  /\ putLog[i].ok =>
                        /\ putLog[i].object_name \in DOMAIN sink
                        /\ sink[putLog[i].object_name] = putLog[i].data
        /\ \A name \in DOMAIN sink :
              \E i \in DOMAIN putLog :
                 /\ putLog[i].ok
                 /\ putLog[i].object_name = name
                 /\ putLog[i].data = sink[name]

C2_Witness ==
    /\ pc = "returned"
    /\ Len(raw_rows) = 2
    /\ Cardinality(MatchingIdx(raw_rows, PGSCHEMA, TARGET_TABLE)) = 2
    /\ \E i \in PutsOf(cycle) :
          putLog[i].ok /\ Len(SplitLines(sink[putLog[i].object_name])) = 3

\* C3: process_cdc_for_cliente returns exactly the entries that decode to a
\* change whose schema and table equal the target's, in the order given,
\* each with the lsn of its own entry.
C3_FilterIsMatchingSubsequence ==
    unit.fn = "process_cdc_for_cliente" =>
        LET rows == unit.args[1]
            M    == MatchingIdx(rows, unit.args[2], unit.args[3])
        IN  /\ Len(unit.ret) = Cardinality(M)
            /\ \A j \in 1..Len(unit.ret) :
                  /\ unit.ret[j].lsn = rows[Nth(M, j)].lsn
                  /\ unit.ret[j].op = Decoded[rows[Nth(M, j)].data].op

C3_Witness ==
    /\ unit.fn = "process_cdc_for_cliente"
    /\ Len(unit.args[1]) = 3
    /\ unit.args[1][1].data = "COMMIT"
    /\ unit.args[1][2].data = "table pub.cliente: UPDATE: id[integer]:2"
    /\ unit.args[1][3].data = "table db_loja.cliente: DELETE: id[integer]:1"
    /\ unit.args[2] = "db_loja"
    /\ unit.args[3] = "cliente"
    /\ Len(unit.ret) = 1
    /\ unit.ret[1].lsn = Lsn(3)

\* C4 (as claimed): when the put fails, what main() reports lets the caller
\* see the number of entries fetched together with the fact that nothing was
\* written, and the bucket holds nothing of the batch.
C4_FailedWriteReportsFetched ==
    (pc = "raised" /\ exc = "SinkWriteError") =>
        /\ CycleResult.entriesFetched = {Len(raw_rows)}
        /\ CycleResult.destinationPath = {}
        /\ \A i \in PutsOf(cycle) : ~putLog[i].ok

\* C5: the slot moves past every entry a fetch returns, for good: no entry is
\* returned by two fetches, and an object holds only entries fetched by the
\* invocation that wrote it, so an entry of an invocation that wrote nothing
\* is in no later object.
C5_NoEntryFetchedTwice ==
    /\ \A i, j \in DOMAIN fetchLog :
          i < j => Range(fetchLog[i].lsns) \cap Range(fetchLog[j].lsns) = {}
    /\ Cardinality(UNION {Range(fetchLog[i].lsns) : i \in DOMAIN fetchLog}) = confirmed
    /\ \A i \in DOMAIN putLog :
          LsnsInCsv(putLog[i].data) \subseteq
             UNION {Range(fetchLog[f].lsns) : f \in FetchesOf(putLog[i].cycle)}
    /\ \A name \in DOMAIN sink :
          \E i \in DOMAIN putLog : putLog[i].ok /\ sink[name] = putLog[i].data

C5_Witness ==
    /\ cycle = 2
    /\ pc = "returned"
    /\ \E f \in FetchesOf(1) : fetchLog[f].lsns = <<Lsn(1)>>
    /\ \A i \in PutsOf(1) : ~putLog[i].ok
    /\ wal[1].data \in {w \in Payloads : Keeps([data |-> w], PGSCHEMA, TARGET_TABLE)}
    /\ \E i \in PutsOf(2) : putLog[i].ok /\ LsnsInCsv(putLog[i].data) = {Lsn(2)}

\* C6: a failed fetch ends the invocation: the exception leaves main(), the
\* fetch is not made again, nothing is decoded or filtered and nothing is put.
C6_FetchErrorIsFatal ==
    (\E f \in FetchesOf(cycle) : ~fetchLog[f].ok) =>
        /\ pc = "raised"
        /\ exc = "SlotFetchError"
        /\ calls = <<"fetch_cdc_changes">>
        /\ Cardinality(FetchesOf(cycle)) = 1
        /\ PutsOf(cycle) = {}
        /\ df = EmptyDataFrame
        /\ raw_rows = << >>

C6_Witness ==
    /\ pc = "raised"
    /\ exc = "SlotFetchError"
    /\ Len(wal) - confirmed >= 1
    /\ \E i \in (confirmed + 1)..Len(wal) : Keeps(wal[i], PGSCHEMA, TARGET_TABLE)

\* C7 (as claimed): write_csv_to_minio makes no put for an empty record set,
\* whoever calls it.
C7_EmptyBatchMakesNoPut ==
    \A i \in DOMAIN putLog : Len(putLog[i].df) > 0

C10_KeysUniquePerCycle ==
    \A i, j \in DOMAIN putLog :
       putLog[i].cycle # putLog[j].cycle =>
          putLog[i].object_name # putLog[j].object_name

\* C10 (amended): two writes get the same destination key exactly when their
\* clock readings are of the same second; the bucket holds, under a key, the
\* object of the last successful put to it, so of two invocations that write
\* within one second the later one replaces the object of the earlier.
C10_KeysUniquePerSecond ==
    /\ \A i, j \in DOMAIN putLog :
          (putLog[i].at = putLog[j].at) <=>
             (putLog[i].object_name = putLog[j].object_name)
    /\ \A name \in DOMAIN sink :
          LET oks == {i \in DOMAIN putLog :
                         putLog[i].ok /\ putLog[i].object_name = name}
          IN  oks # {} /\ sink[name] = putLog[Max(oks)].data

C10_Witness ==
    \E i, j \in DOMAIN putLog :
       /\ putLog[i].cycle < putLog[j].cycle
       /\ putLog[i].ok
       /\ putLog[j].ok
       /\ putLog[i].object_name = putLog[j].object_name
       /\ putLog[i].data # putLog[j].data
       /\ sink[putLog[i].object_name] = putLog[j].data
       /\ Cardinality(DOMAIN sink) = 1

\* C9 (as claimed): parse_test_decoding_row returns the empty dict for every
\* payload that does not begin with the header, and the filter keeps no such
\* entry.
C9_NoHeaderIsAbsent ==
    /\ unit.fn = "parse_test_decoding_row" =>
          (~BeginsWithHeader(unit.args) => DOMAIN unit.ret = {})
    /\ unit.fn = "process_cdc_for_cliente" =>
          \A i \in DOMAIN unit.args[1] :
             ~BeginsWithHeader(unit.args[1][i].data) =>
                \A j \in DOMAIN unit.ret : unit.ret[j].lsn # unit.args[1][i].lsn

\* C9 (amended): parse_test_decoding_row returns the empty dict for every
\* payload that, its leading whitespace removed, does not begin with the
\* header, and the filter keeps no such entry.
C9_NoHeaderAfterLeadingSpaceIsAbsent ==
    /\ unit.fn = "parse_test_decoding_row" =>
          (~BeginsWithHeader(DropLeadingSpace(unit.args)) => DOMAIN unit.ret = {})
    /\ unit.fn = "process_cdc_for_cliente" =>
          \A i \in DOMAIN unit.args[1] :
             ~BeginsWithHeader(DropLeadingSpace(unit.args[1][i].data)) =>
                \A j \in DOMAIN unit.ret : unit.ret[j].lsn # unit.args[1][i].lsn

C9_Witness ==
    /\ unit.fn = "parse_test_decoding_row"
    /\ unit.args = " table db_loja.cliente: TRUNCATE: (no-tuple-data)"
    /\ ~BeginsWithHeader(DropLeadingSpace(unit.args))
    /\ DOMAIN unit.ret = {}

====
